---- MODULE Spec2Model ----
(***************************************************************************)
(* hex-buffer-serde: the adapters Hex (src/src/var_len.rs), its earlier    *)
(* copy Hex (src/src/lib.rs) and ConstHex (src/src/const_len.rs), with the *)
(* two collaborators they call: the hex codec and the serde framework's    *)
(* serializer / deserializer / visitor protocol.                           *)
(*                                                                         *)
(* A string is a sequence of one-character strings, a byte buffer is a     *)
(* sequence of integers 0..255.  One call is in flight at a time; every    *)
(* call records the collaborator calls it makes in `log`.                  *)
(***************************************************************************)
EXTENDS Integers, Sequences, FiniteSets, TLC

(***************************************************************************)
(* Bounds of the model.                                                    *)
(***************************************************************************)
\* longest string token a deserializer delivers
MaxStrLen == 4
\* longest byte token a deserializer delivers / longest Vec<u8> value
MaxBytesLen == 3
\* largest const generic N of ConstHex<T, N>
MaxN == 2
\* length of the fixed-size buffers of the variable-length stubs
\* (Buffer([u8; 8]) in the tests, scaled down)
BufLen == 2

\* characters the delivered string tokens are made of: a digit, a lower-case
\* and an upper-case hex letter, and a character that is no hex digit
InChars == {"0", "a", "F", "g"}
\* byte values the delivered byte tokens and the serialized values are made of
ByteVals == {0, 11, 175, 255}

NoLen == 0 - 1

(***************************************************************************)
(* Collaborator B: the hex codec (crate `hex`).                            *)
(***************************************************************************)
LowerDigits ==
    <<"0", "1", "2", "3", "4", "5", "6", "7", "8", "9", "a", "b", "c", "d", "e", "f">>

UpperDigits ==
    <<"0", "1", "2", "3", "4", "5", "6", "7", "8", "9", "A", "B", "C", "D", "E", "F">>

\* hex::encode: two characters per byte, high nibble first, from `table`
EncodeWith(table, bs) ==
    [i \in 1..(2 * Len(bs)) |->
        IF i % 2 = 1 THEN table[(bs[(i + 1) \div 2] \div 16) + 1]
                     ELSE table[(bs[i \div 2] % 16) + 1]]

HexEncode(bs) == EncodeWith(LowerDigits, bs)

\* hex's val(): the value of one hex digit of either case, NoLen when it is none
HexVal(c) ==
    IF \E i \in 1..16 : LowerDigits[i] = c
    THEN (CHOOSE i \in 1..16 : LowerDigits[i] = c) - 1
    ELSE IF \E i \in 1..16 : UpperDigits[i] = c
    THEN (CHOOSE i \in 1..16 : UpperDigits[i] = c) - 1
    ELSE NoLen

DecodePairs(s) ==
    [i \in 1..(Len(s) \div 2) |-> 16 * HexVal(s[2 * i - 1]) + HexVal(s[2 * i])]

\* hex::decode: odd length and a character that is no hex digit are errors
HexDecode(s) ==
    IF Len(s) % 2 # 0
    THEN [ok |-> FALSE, bytes |-> <<>>, why |-> "OddLength"]
    ELSE IF \E i \in 1..Len(s) : HexVal(s[i]) = NoLen
    THEN [ok |-> FALSE, bytes |-> <<>>, why |-> "InvalidHexCharacter"]
    ELSE [ok |-> TRUE, bytes |-> DecodePairs(s), why |-> ""]

\* hex::decode_to_slice into a buffer of `m` bytes
HexDecodeToSlice(s, m) ==
    IF Len(s) % 2 # 0
    THEN [ok |-> FALSE, bytes |-> <<>>, why |-> "OddLength"]
    ELSE IF Len(s) \div 2 # m
    THEN [ok |-> FALSE, bytes |-> <<>>, why |-> "InvalidStringLength"]
    ELSE IF \E i \in 1..Len(s) : HexVal(s[i]) = NoLen
    THEN [ok |-> FALSE, bytes |-> <<>>, why |-> "InvalidHexCharacter"]
    ELSE [ok |-> TRUE, bytes |-> DecodePairs(s), why |-> ""]

\* hex::encode_to_slice into a buffer of `outLen` bytes
HexEncodeToSlice(bs, outLen) ==
    IF 2 * Len(bs) # outLen
    THEN [ok |-> FALSE, str |-> <<>>, why |-> "InvalidOutputLength"]
    ELSE [ok |-> TRUE, str |-> HexEncode(bs), why |-> ""]

(***************************************************************************)
(* Values, errors and tokens.                                              *)
(***************************************************************************)
SeqsUpTo(S, n) == UNION {[1..k -> S] : k \in 0..n}

SeqsOfLen(S, n) == [1..n -> S]

NoVal == [ty |-> "none", data |-> <<>>]

Val(ty, bs) == [ty |-> ty, data |-> bs]

NoExp == [text |-> "", n |-> NoLen]

NoUnexp == [t |-> "none", str |-> <<>>, bytes |-> <<>>]

NoErr == [kind |-> "none", unexp |-> NoUnexp, len |-> NoLen, exp |-> NoExp, msg |-> ""]

\* serde::de::Unexpected::{Str, Bytes, Unsigned}
UnexpStr(s) == [t |-> "str", str |-> s, bytes |-> <<>>]

UnexpBytes(b) == [t |-> "bytes", str |-> <<>>, bytes |-> b]

UnexpUnsigned == [t |-> "unsigned", str |-> <<>>, bytes |-> <<>>]

\* serde::de::Error::{invalid_type, invalid_length, custom}
InvalidType(unexp, exp) ==
    [kind |-> "invalid_type", unexp |-> unexp, len |-> NoLen, exp |-> exp, msg |-> ""]

InvalidLength(len, exp) ==
    [kind |-> "invalid_length", unexp |-> NoUnexp, len |-> len, exp |-> exp, msg |-> ""]

Custom(msg) ==
    [kind |-> "custom", unexp |-> NoUnexp, len |-> NoLen, exp |-> NoExp, msg |-> msg]

\* an error of the format itself (I/O, syntax), raised before any visitor runs
TransportError ==
    [kind |-> "transport", unexp |-> NoUnexp, len |-> NoLen, exp |-> NoExp, msg |-> ""]

\* what a deserializer hands to the visitor
StrTok(s) == [kind |-> "str", str |-> s, bytes |-> <<>>]

BytesTok(b) == [kind |-> "bytes", str |-> <<>>, bytes |-> b]

ByteBufTok(b) == [kind |-> "byte_buf", str |-> <<>>, bytes |-> b]

U64Tok == [kind |-> "u64", str |-> <<>>, bytes |-> <<>>]

FailTok == [kind |-> "fail", str |-> <<>>, bytes |-> <<>>]

NoTok == [kind |-> "none", str |-> <<>>, bytes |-> <<>>]

\* visitor output / create_bytes output
OkBytes(b) == [ok |-> TRUE, bytes |-> b, err |-> NoErr]

ErrBytes(e) == [ok |-> FALSE, bytes |-> <<>>, err |-> e]

NoBuf == [ok |-> FALSE, bytes |-> <<>>, err |-> NoErr]

\* the display of an invalid_length error, as the format renders it
Render(e) ==
    IF e.kind = "invalid_length"
    THEN IF e.exp.n = NoLen
         THEN <<"invalid length ", e.len, ", expected ", e.exp.text>>
         ELSE <<"invalid length ", e.len, ", expected ", e.exp.text, e.exp.n>>
    ELSE IF e.kind = "custom" THEN <<e.msg>>
    ELSE <<e.kind>>

(***************************************************************************)
(* The stubs: implementations of create_bytes / from_bytes.                *)
(***************************************************************************)
VecStub == [kind |-> "HexFormVec", len |-> NoLen]

ArrayStub(k) == [kind |-> "HexFormArray", len |-> k]

BufferHexStub(k) == [kind |-> "BufferHex", len |-> k]

ConstFormStub(n) == [kind |-> "ConstHexForm", len |-> n]

KeyHexStub(n) == [kind |-> "KeyHex", len |-> n]

VarStubs == {VecStub, ArrayStub(BufLen), BufferHexStub(BufLen)}

ConstStubs == {ConstFormStub(n) : n \in 0..MaxN} \cup {KeyHexStub(n) : n \in 0..MaxN}

\* the curve check of the key type: some arrays of the right length are no keys
KeyValid(bs) == ~(Len(bs) > 0 /\ \A i \in 1..Len(bs) : bs[i] = 255)

ValueTy(stub) ==
    CASE stub.kind = "HexFormVec" -> "Vec"
      [] stub.kind = "HexFormArray" -> "Array"
      [] stub.kind = "BufferHex" -> "Buffer"
      [] stub.kind = "ConstHexForm" -> "Array"
      [] stub.kind = "KeyHex" -> "Key"

\* the values of the stub's target type T
Values(stub) ==
    CASE stub.kind = "HexFormVec" -> {Val("Vec", b) : b \in SeqsUpTo(ByteVals, MaxBytesLen)}
      [] stub.kind = "KeyHex" ->
            {Val("Key", b) : b \in {x \in SeqsOfLen(ByteVals, stub.len) : KeyValid(x)}}
      [] OTHER -> {Val(ValueTy(stub), b) : b \in SeqsOfLen(ByteVals, stub.len)}

FromOk(v) == [ok |-> TRUE, val |-> v, msg |-> ""]

\* a failure of from_bytes, held as the text its error displays
FromErr(msg) == [ok |-> FALSE, val |-> NoVal, msg |-> msg]

\* T::as_ref of Vec<u8> and [u8; K]: the bytes of the value
AsRef(v) == v.data

\* T::try_from(&[u8]) of Vec<u8> (never fails) and of [u8; K] (TryFromSliceError)
TryFromSlice(stub, bs) ==
    IF stub.kind = "HexFormVec" THEN FromOk(Val("Vec", bs))
    ELSE IF Len(bs) = stub.len THEN FromOk(Val("Array", bs))
    ELSE FromErr("could not convert slice to array")

\* HexForm<T>::create_bytes
HexFormCreateBytes(v) == AsRef(v)

\* from_bytes that answers a failed conversion with a message of its own
HexFormFromBytesOwnError(stub, bs) ==
    IF TryFromSlice(stub, bs).ok THEN TryFromSlice(stub, bs)
    ELSE FromErr("invalid buffer length")

\* HexForm<T>::from_bytes
HexFormFromBytes(stub, bs) == TryFromSlice(stub, bs)

\* ConstHexForm<[u8; N]>::create_bytes: *buffer
ConstFormCreateBytes(v) == v.data

\* from_bytes that refuses the empty array
ConstFormFromBytesNonEmpty(bs) ==
    IF Len(bs) = 0 THEN FromErr("empty array") ELSE FromOk(Val("Array", bs))

\* ConstHexForm<[u8; N]>::from_bytes: Ok(bytes)
ConstFormFromBytes(bs) == FromOk(Val("Array", bs))

\* create_bytes of each stub: the bytes of the value (borrowed or copied)
CreateBytes(stub, v) ==
    CASE stub.kind \in {"HexFormVec", "HexFormArray"} -> HexFormCreateBytes(v)
      [] stub.kind = "ConstHexForm" -> ConstFormCreateBytes(v)
      [] OTHER -> v.data

\* from_bytes of each stub
FromBytes(stub, bs) ==
    CASE stub.kind \in {"HexFormVec", "HexFormArray"} -> HexFormFromBytes(stub, bs)
      [] stub.kind = "BufferHex" ->
            IF Len(bs) = stub.len THEN FromOk(Val("Buffer", bs))
            ELSE FromErr("invalid buffer length")
      [] stub.kind = "ConstHexForm" -> ConstFormFromBytes(bs)
      [] stub.kind = "KeyHex" ->
            IF KeyValid(bs) THEN FromOk(Val("Key", bs))
            ELSE FromErr("invalid public key")

(***************************************************************************)
(* The visitors of Hex::deserialize (var_len.rs), of the earlier           *)
(* Hex::deserialize (lib.rs) and of ConstHex::deserialize (const_len.rs).  *)
(* A visitor method the code does not define is serde's default: it        *)
(* rejects the token with invalid_type, except visit_byte_buf, which       *)
(* forwards to visit_bytes.                                                *)
(***************************************************************************)
ExpVarHex == [text |-> "hex-encoded byte array", n |-> NoLen]

ExpVarBytes == [text |-> "byte array", n |-> NoLen]

ExpConstHex(m) == [text |-> "hex-encoded byte array of length ", n |-> m]

ExpConstBytes(m) == [text |-> "byte array of length ", n |-> m]

\* serde's default for a token type the visitor has no method for
DefaultVisit(tok, exp) ==
    CASE tok.kind = "str" -> ErrBytes(InvalidType(UnexpStr(tok.str), exp))
      [] tok.kind \in {"bytes", "byte_buf"} ->
            ErrBytes(InvalidType(UnexpBytes(tok.bytes), exp))
      [] OTHER -> ErrBytes(InvalidType(UnexpUnsigned, exp))

\* a decoder that refuses the empty string
VarHexVisitStrNonEmpty(s) ==
    IF Len(s) > 0 /\ HexDecode(s).ok THEN OkBytes(HexDecode(s).bytes)
    ELSE ErrBytes(InvalidType(UnexpStr(s), ExpVarHex))

\* a decoder that takes lowercase digits only
VarHexVisitStrLowerOnly(s) ==
    LET d == HexDecode(s)
    IN  IF d.ok /\ HexEncode(d.bytes) = s
        THEN OkBytes(d.bytes)
        ELSE ErrBytes(InvalidType(UnexpStr(s), ExpVarHex))

\* Hex::deserialize::HexVisitor::visit_str
VarHexVisitStr(s) ==
    LET d == HexDecode(s)
    IN  IF d.ok THEN OkBytes(d.bytes)
        ELSE ErrBytes(InvalidType(UnexpStr(s), ExpVarHex))

\* visit_bytes refusing an empty buffer
VarHexVisitBytesNonEmpty(b) ==
    IF Len(b) = 0 THEN ErrBytes(InvalidLength(0, ExpVarHex)) ELSE OkBytes(b)

\* HexVisitor without a visit_bytes of its own
VarHexVisitBytesNone(b) == DefaultVisit(BytesTok(b), ExpVarHex)

\* Hex::deserialize::HexVisitor::visit_bytes
VarHexVisitBytes(b) == OkBytes(b)

VarHexVisitor(tok) ==
    CASE tok.kind = "str" -> VarHexVisitStr(tok.str)
      [] tok.kind \in {"bytes", "byte_buf"} -> VarHexVisitBytes(tok.bytes)
      [] OTHER -> DefaultVisit(tok, ExpVarHex)

\* Hex::deserialize::BytesVisitor: visit_bytes and visit_byte_buf
VarBytesVisitor(tok) ==
    CASE tok.kind \in {"bytes", "byte_buf"} -> OkBytes(tok.bytes)
      [] OTHER -> DefaultVisit(tok, ExpVarBytes)

\* the display of hex::FromHexError (the character and its position left out)
FromHexErrorText(why) ==
    CASE why = "OddLength" -> "Odd number of digits"
      [] why = "InvalidStringLength" -> "Invalid string length"
      [] OTHER -> "Invalid character"

\* lib.rs, Hex::deserialize::HexVisitor::visit_str
LegacyHexVisitStr(s) ==
    LET d == HexDecode(s)
    IN  IF d.ok THEN OkBytes(d.bytes)
        ELSE ErrBytes(Custom(FromHexErrorText(d.why)))

LegacyHexVisitor(tok) ==
    CASE tok.kind = "str" -> LegacyHexVisitStr(tok.str)
      [] tok.kind \in {"bytes", "byte_buf"} -> OkBytes(tok.bytes)
      [] OTHER -> DefaultVisit(tok, ExpVarHex)

\* lib.rs, Hex::deserialize::BytesVisitor: visit_bytes only
LegacyBytesVisitor(tok) ==
    CASE tok.kind \in {"bytes", "byte_buf"} -> OkBytes(tok.bytes)
      [] OTHER -> DefaultVisit(tok, ExpVarBytes)

\* <[u8; M]>::try_from(&[u8]) as both ConstHex visitors use it
ConstTryFrom(b, m, exp) ==
    IF Len(b) = m THEN OkBytes(b)
    ELSE ErrBytes(InvalidLength(Len(b), exp))

\* visit_str decoding with hex::decode, which checks no length
ConstHexVisitStrAnyLen(s, m) ==
    LET d == HexDecode(s)
    IN  IF d.ok THEN OkBytes(d.bytes)
        ELSE ErrBytes(InvalidType(UnexpStr(s), ExpConstHex(m)))

\* visit_str decoding into a buffer of 2 * M bytes, the length of the string
ConstHexVisitStrWide(s, m) ==
    LET d == HexDecodeToSlice(s, 2 * m)
    IN  IF d.ok THEN OkBytes(d.bytes)
        ELSE ErrBytes(InvalidType(UnexpStr(s), ExpConstHex(m)))

\* ConstHex::deserialize::HexVisitor::visit_str
ConstHexVisitStr(s, m) ==
    LET d == HexDecodeToSlice(s, m)
    IN  IF d.ok THEN OkBytes(d.bytes)
        ELSE ErrBytes(InvalidType(UnexpStr(s), ExpConstHex(m)))

\* HexVisitor<M> without a visit_bytes of its own
ConstHexVisitBytesNone(b, m) == DefaultVisit(BytesTok(b), ExpConstHex(m))

\* visit_bytes keeping the first m bytes of a longer slice
ConstHexVisitBytesTruncating(b, m) ==
    IF Len(b) >= m THEN OkBytes(SubSeq(b, 1, m))
    ELSE ErrBytes(InvalidLength(Len(b), ExpConstHex(m)))

\* ConstHex::deserialize::HexVisitor::visit_bytes
ConstHexVisitBytes(b, m) == ConstTryFrom(b, m, ExpConstHex(m))

ConstHexVisitor(tok, m) ==
    CASE tok.kind = "str" -> ConstHexVisitStr(tok.str, m)
      [] tok.kind \in {"bytes", "byte_buf"} -> ConstHexVisitBytes(tok.bytes, m)
      [] OTHER -> DefaultVisit(tok, ExpConstHex(m))

\* visit_bytes reporting the expectation of the string visitor
ConstBytesVisitBytesHexExp(b, m) == ConstTryFrom(b, m, ExpConstHex(m))

\* visit_bytes with the length check off by one
ConstBytesVisitBytesOff(b, m) == ConstTryFrom(b, m + 1, ExpConstBytes(m))

\* ConstHex::deserialize::BytesVisitor::visit_bytes
ConstBytesVisitBytes(b, m) == ConstTryFrom(b, m, ExpConstBytes(m))

ConstBytesVisitor(tok, m) ==
    CASE tok.kind \in {"bytes", "byte_buf"} -> ConstBytesVisitBytes(tok.bytes, m)
      [] OTHER -> DefaultVisit(tok, ExpConstBytes(m))

\* the method of the visitor the deserializer calls for a token
VisitName(tok) ==
    CASE tok.kind = "str" -> "visit_str"
      [] tok.kind = "bytes" -> "visit_bytes"
      [] tok.kind = "byte_buf" -> "visit_byte_buf"
      [] OTHER -> "visit_u64"

\* the visitor deserialize hands to deserialize_str
HexVisitorOf(adapter, stub, tok) ==
    CASE adapter = "var" -> VarHexVisitor(tok)
      [] adapter = "legacy" -> LegacyHexVisitor(tok)
      [] adapter = "const" -> ConstHexVisitor(tok, stub.len)

\* the visitor deserialize hands to deserialize_byte_buf / deserialize_bytes
BytesVisitorOf(adapter, stub, tok) ==
    CASE adapter = "var" -> VarBytesVisitor(tok)
      [] adapter = "legacy" -> LegacyBytesVisitor(tok)
      [] adapter = "const" -> ConstBytesVisitor(tok, stub.len)

\* the request deserialize makes on the binary path
BytesRequest(adapter) ==
    IF adapter = "var" THEN "deserialize_byte_buf" ELSE "deserialize_bytes"

(***************************************************************************)
(* The serialize side.                                                     *)
(***************************************************************************)
SizeOfU16 == 2

\* as_u8_slice taking the number of items for the number of bytes
AsU8SliceLenItems(n) == n

\* ConstHex::serialize::as_u8_slice: the byte length of a [u16] slice of n items
AsU8SliceLen(n) == IF n = 0 THEN 0 ELSE n * SizeOfU16

\* Hex::serialize calling hex::encode_upper in place of hex::encode
VarEmitStrUpper(bs) == [ok |-> TRUE, str |-> EncodeWith(UpperDigits, bs), why |-> ""]

\* Hex::serialize, human-readable branch: the string handed to serialize_str
VarEmitStr(bs) == [ok |-> TRUE, str |-> HexEncode(bs), why |-> ""]

\* encode_to_slice writing upper-case digits
ConstEmitStrUpper(bs, n) ==
    [ok |-> TRUE, str |-> EncodeWith(UpperDigits, bs), why |-> ""]

\* ConstHex::serialize, human-readable branch: encode_to_slice into the
\* [0_u16; N] buffer seen as bytes; a failure is the panic of unwrap()
ConstEmitStr(bs, n) == HexEncodeToSlice(bs, AsU8SliceLen(n))

\* serialize framing the slice itself with a length prefix
EmitBytesPrefixed(bs) == <<Len(bs)>> \o bs

\* both serialize methods, binary branch: the slice handed to serialize_bytes
EmitBytes(bs) == bs

EmitStrOf(adapter, stub, bs) ==
    IF adapter = "const" THEN ConstEmitStr(bs, stub.len) ELSE VarEmitStr(bs)

(***************************************************************************)
(* The state: one call of serialize or deserialize in flight.              *)
(***************************************************************************)
VARIABLES
    pc,      \* where the call in flight stands
    call,    \* its inputs: the adapter, the stub, the value, the (de)serializer
    buf,     \* serialize: create_bytes' output; deserialize: the visitor's output
    emitted, \* serialize: the token handed to serialize_str / serialize_bytes
    result,  \* what the call returned
    passed,  \* the bytes from_bytes was called with
    log,     \* the collaborator calls made, in order
    prev,    \* the call whose output this call was given (a round trip)
    other    \* the locals of a call on a second thread, while it does not run

vars == <<pc, call, buf, emitted, result, passed, log, prev, other>>

Adapters == {"var", "legacy", "const"}

StubsOf(adapter) == IF adapter = "const" THEN ConstStubs ELSE VarStubs

InStrings == SeqsUpTo(InChars, MaxStrLen)

InBytes == SeqsUpTo(ByteVals, MaxBytesLen)

\* every token a deserializer may deliver
Tokens ==
    {StrTok(s) : s \in InStrings}
        \cup {BytesTok(b) : b \in InBytes}
        \cup {ByteBufTok(b) : b \in InBytes}
        \cup {U64Tok, FailTok}

NoStub == [kind |-> "none", len |-> NoLen]

NoCall ==
    [op |-> "none", adapter |-> "none", stub |-> NoStub, value |-> NoVal,
     hr |-> FALSE, sfails |-> FALSE, token |-> NoTok]

SerCallOf(adapter, stub, v, hr, sfails) ==
    [op |-> "ser", adapter |-> adapter, stub |-> stub, value |-> v,
     hr |-> hr, sfails |-> sfails, token |-> NoTok]

DeCallOf(adapter, stub, hr, tok) ==
    [op |-> "de", adapter |-> adapter, stub |-> stub, value |-> NoVal,
     hr |-> hr, sfails |-> FALSE, token |-> tok]

NoResult == [tag |-> "none", val |-> NoVal, err |-> NoErr]

\* S::Error of a serializer that fails
SerializerError ==
    [kind |-> "serializer", unexp |-> NoUnexp, len |-> NoLen, exp |-> NoExp, msg |-> ""]

SerOk == [tag |-> "ok", val |-> NoVal, err |-> NoErr]

SerErr == [tag |-> "err", val |-> NoVal, err |-> SerializerError]

Panicked == [tag |-> "panic", val |-> NoVal, err |-> NoErr]

DeOk(v) == [tag |-> "ok", val |-> v, err |-> NoErr]

DeErr(e) == [tag |-> "err", val |-> NoVal, err |-> e]

NoPassed == [called |-> FALSE, bytes |-> <<>>]

\* what a caller keeps of the call before this one
NoPrev ==
    [op |-> "none", value |-> NoVal, token |-> NoTok, hr |-> FALSE,
     result |-> NoResult, passed |-> NoPassed, emitted |-> NoTok]

\* the locals of a thread that is in no call
IdleLocals ==
    [pc |-> "idle", call |-> NoCall, buf |-> NoBuf, emitted |-> NoTok,
     result |-> NoResult, passed |-> NoPassed, log |-> <<>>, prev |-> NoPrev]

Init ==
    /\ other = IdleLocals
    /\ pc = "idle"
    /\ call = NoCall
    /\ buf = NoBuf
    /\ emitted = NoTok
    /\ result = NoResult
    /\ passed = NoPassed
    /\ log = <<>>
    /\ prev = NoPrev

\* a fresh call: everything of the call before it is gone
Begin(c, p, where) ==
    /\ call' = c
    /\ prev' = p
    /\ pc' = where
    /\ buf' = NoBuf
    /\ emitted' = NoTok
    /\ result' = NoResult
    /\ passed' = NoPassed
    /\ log' = <<>>
    /\ UNCHANGED other

(***************************************************************************)
(* serialize(value, serializer)                                            *)
(***************************************************************************)
SerCall(adapter, stub, v, hr, sfails) ==
    /\ pc = "idle"
    /\ Begin(SerCallOf(adapter, stub, v, hr, sfails), NoPrev, "ser_start")

\* let value = Self::create_bytes(value);
SerCreateBytes ==
    /\ pc = "ser_start"
    /\ buf' = OkBytes(CreateBytes(call.stub, call.value))
    /\ log' = Append(log, "create_bytes")
    /\ pc' = "ser_created"
    /\ UNCHANGED <<other, call, emitted, result, passed, prev>>

\* if serializer.is_human_readable() { ... } else { ... }
SerBranch ==
    /\ pc = "ser_created"
    /\ log' = Append(log, "is_human_readable")
    /\ pc' = IF call.hr THEN "ser_hex" ELSE "ser_raw"
    /\ UNCHANGED <<other, call, buf, emitted, result, passed, prev>>

\* serializer.serialize_str(<hex of the bytes>)
SerEmitStr ==
    /\ pc = "ser_hex"
    /\ LET enc == EmitStrOf(call.adapter, call.stub, buf.bytes)
       IN  IF ~enc.ok
           THEN /\ emitted' = NoTok
                /\ result' = Panicked
                /\ log' = log
           ELSE /\ emitted' = StrTok(enc.str)
                /\ result' = IF call.sfails THEN SerErr ELSE SerOk
                /\ log' = Append(log, "serialize_str")
    /\ pc' = "done"
    /\ UNCHANGED <<other, call, buf, passed, prev>>

\* the binary branch calling create_bytes a second time for the slice it emits
SerEmitBytesRecreate ==
    /\ pc = "ser_raw"
    /\ emitted' = BytesTok(EmitBytes(CreateBytes(call.stub, call.value)))
    /\ result' = IF call.sfails THEN SerErr ELSE SerOk
    /\ log' = log \o <<"create_bytes", "serialize_bytes">>
    /\ pc' = "done"
    /\ UNCHANGED <<other, call, buf, passed, prev>>

\* serializer.serialize_bytes(value.as_ref())
SerEmitBytes ==
    /\ pc = "ser_raw"
    /\ emitted' = BytesTok(EmitBytes(buf.bytes))
    /\ result' = IF call.sfails THEN SerErr ELSE SerOk
    /\ log' = Append(log, "serialize_bytes")
    /\ pc' = "done"
    /\ UNCHANGED <<other, call, buf, passed, prev>>

(***************************************************************************)
(* deserialize(deserializer)                                               *)
(***************************************************************************)
DeCall(adapter, stub, hr, tok) ==
    /\ pc = "idle"
    /\ Begin(DeCallOf(adapter, stub, hr, tok), NoPrev, "de_start")

\* if deserializer.is_human_readable() { ... } else { ... }
DeBranch ==
    /\ pc = "de_start"
    /\ log' = Append(log, "is_human_readable")
    /\ pc' = IF call.hr THEN "de_str" ELSE "de_raw"
    /\ UNCHANGED <<other, call, buf, emitted, result, passed, prev>>

\* what the deserializer does with the visitor it is given
Deliver(request, visited) ==
    IF call.token.kind = "fail"
    THEN /\ buf' = ErrBytes(TransportError)
         /\ log' = Append(log, request)
    ELSE /\ buf' = visited
         /\ log' = log \o <<request, VisitName(call.token)>>

\* deserializer.deserialize_str(HexVisitor)
DeVisitStr ==
    /\ pc = "de_str"
    /\ Deliver("deserialize_str", HexVisitorOf(call.adapter, call.stub, call.token))
    /\ pc' = "de_visited"
    /\ UNCHANGED <<other, call, emitted, result, passed, prev>>

\* deserializer.deserialize_byte_buf(BytesVisitor) / deserialize_bytes(BytesVisitor)
DeVisitBytes ==
    /\ pc = "de_raw"
    /\ Deliver(BytesRequest(call.adapter),
               BytesVisitorOf(call.adapter, call.stub, call.token))
    /\ pc' = "de_visited"
    /\ UNCHANGED <<other, call, emitted, result, passed, prev>>

\* from_bytes' error replaced by a message of the adapter's own
MapFromBytesRewritten(r) ==
    IF r.ok THEN DeOk(r.val) ELSE DeErr(Custom("invalid byte buffer"))

\* the result kept in a slot that the calls of both threads write
MapFromBytesShared(r) ==
    IF other.result.tag # "none" THEN other.result
    ELSE IF r.ok THEN DeOk(r.val) ELSE DeErr(Custom(r.msg))

\* the result of Self::from_bytes(bytes).map_err(D::Error::custom)
MapFromBytes(r) == IF r.ok THEN DeOk(r.val) ELSE DeErr(Custom(r.msg))

\* maybe_bytes.and_then(|bytes| Self::from_bytes(..).map_err(D::Error::custom)), Ok arm
DeFromBytes ==
    /\ pc = "de_visited"
    /\ buf.ok
    /\ passed' = [called |-> TRUE, bytes |-> buf.bytes]
    /\ result' = MapFromBytes(FromBytes(call.stub, buf.bytes))
    /\ log' = Append(log, "from_bytes")
    /\ pc' = "done"
    /\ UNCHANGED <<other, call, buf, emitted, prev>>

\* the visitor's error swallowed: from_bytes is given no bytes instead
DePropagateDefault ==
    /\ pc = "de_visited"
    /\ ~buf.ok
    /\ passed' = [called |-> TRUE, bytes |-> <<>>]
    /\ result' = MapFromBytes(FromBytes(call.stub, <<>>))
    /\ log' = Append(log, "from_bytes")
    /\ pc' = "done"
    /\ UNCHANGED <<other, call, buf, emitted, prev>>

\* maybe_bytes.and_then(..), Err arm: the error is returned as it is
DePropagate ==
    /\ pc = "de_visited"
    /\ ~buf.ok
    /\ result' = DeErr(buf.err)
    /\ pc' = "done"
    /\ UNCHANGED <<other, call, buf, emitted, passed, log, prev>>

(***************************************************************************)
(* Letter case of hex strings.                                             *)
(***************************************************************************)
LowerChars ==
    {"0", "1", "2", "3", "4", "5", "6", "7", "8", "9", "a", "b", "c", "d", "e", "f"}

HexChars == LowerChars \cup {"A", "B", "C", "D", "E", "F"}

IsHexStr(s) == Len(s) % 2 = 0 /\ \A i \in 1..Len(s) : s[i] \in HexChars

LowerChar(c) ==
    CASE c = "A" -> "a" [] c = "B" -> "b" [] c = "C" -> "c"
      [] c = "D" -> "d" [] c = "E" -> "e" [] c = "F" -> "f"
      [] OTHER -> c

LowerStr(s) == [i \in 1..Len(s) |-> LowerChar(s[i])]

UpperChar(c) ==
    CASE c = "a" -> "A" [] c = "b" -> "B" [] c = "c" -> "C"
      [] c = "d" -> "D" [] c = "e" -> "E" [] c = "f" -> "F"
      [] OTHER -> c

\* s with the letters at the positions of mask in upper case
Recased(s, mask) ==
    [i \in 1..Len(s) |-> IF mask[i] THEN UpperChar(s[i]) ELSE LowerChar(s[i])]

(***************************************************************************)
(* The callers: a call returns; a format feeds what serialize emitted to   *)
(* deserialize; a caller serializes what deserialize returned.             *)
(***************************************************************************)
Return ==
    /\ pc = "done"
    /\ Begin(NoCall, NoPrev, "idle")

\* the token a format delivers for an emitted token: a string as a string,
\* bytes as borrowed or owned bytes
Redeliver(tok, owned) ==
    IF tok.kind = "bytes" /\ owned THEN ByteBufTok(tok.bytes) ELSE tok

\* The deserializer of the same format reports the serializer's flag.  A field
\* of a flattened container is read through a deserializer that reports
\* human-readable even when the format is binary.
Feed(hr, owned) ==
    /\ pc = "done"
    /\ call.op = "ser"
    /\ result.tag = "ok"
    /\ hr = call.hr \/ (hr /\ emitted.kind = "bytes")
    /\ Begin(DeCallOf(call.adapter, call.stub, hr, Redeliver(emitted, owned)),
             [op |-> "ser", value |-> call.value, token |-> emitted, hr |-> call.hr,
              result |-> result, passed |-> passed, emitted |-> emitted],
             "de_start")

Reserialize(hr, sfails) ==
    /\ pc = "done"
    /\ call.op = "de"
    /\ result.tag = "ok"
    /\ Begin(SerCallOf(call.adapter, call.stub, result.val, hr, sfails),
             [op |-> "de", value |-> result.val, token |-> call.token, hr |-> call.hr,
              result |-> result, passed |-> passed, emitted |-> emitted],
             "ser_start")

\* a caller serializes any value of any stub with any serializer
\* A caller deserializes, with the same adapter and a human-readable
\* deserializer, the lowercase hex string it deserialized before, now spelled
\* with some of its letters in upper case.
Recase(mask) ==
    /\ call.token.str # Recased(call.token.str, mask)
    /\ Begin(DeCallOf(call.adapter, call.stub, TRUE,
                      StrTok(Recased(call.token.str, mask))),
             [op |-> "recase", value |-> NoVal, token |-> call.token, hr |-> call.hr,
              result |-> result, passed |-> passed, emitted |-> emitted],
             "de_start")

RecaseAny ==
    /\ pc = "done"
    /\ call.op = "de"
    /\ call.hr
    /\ call.token.kind = "str"
    /\ IsHexStr(call.token.str)
    /\ call.token.str = LowerStr(call.token.str)
    /\ \E mask \in [1..Len(call.token.str) -> BOOLEAN] : Recase(mask)

SerCallAny ==
    /\ pc = "idle"
    /\ \E adapter \in Adapters : \E stub \in StubsOf(adapter) :
         \E v \in Values(stub) : \E hr \in BOOLEAN : \E sfails \in BOOLEAN :
            SerCall(adapter, stub, v, hr, sfails)

\* a caller deserializes from a deserializer that delivers any token
DeCallAny ==
    /\ pc = "idle"
    /\ \E adapter \in Adapters : \E stub \in StubsOf(adapter) :
         \E hr \in BOOLEAN : \E tok \in Tokens :
            DeCall(adapter, stub, hr, tok)

FeedAny == \E hr \in BOOLEAN : \E owned \in BOOLEAN : Feed(hr, owned)

ReserializeAny == \E hr \in BOOLEAN : \E sfails \in BOOLEAN : Reserialize(hr, sfails)

Next ==
    \/ SerCallAny
    \/ SerCreateBytes
    \/ SerBranch
    \/ SerEmitStr
    \/ SerEmitBytes
    \/ DeCallAny
    \/ DeBranch
    \/ DeVisitStr
    \/ DeVisitBytes
    \/ DeFromBytes
    \/ DePropagate
    \/ Return
    \/ FeedAny
    \/ ReserializeAny
    \/ RecaseAny

Spec == Init /\ [][Next]_vars

(***************************************************************************)
(* Two threads.  serialize and deserialize are associated functions: they  *)
(* read their arguments and their own locals, and nothing else.  One       *)
(* thread runs at a time and the scheduler may switch between any two      *)
(* steps.  A caller runs an invocation alone, then runs it again while a   *)
(* second thread runs invocations of its own.                              *)
(***************************************************************************)
Locals ==
    [pc |-> pc, call |-> call, buf |-> buf, emitted |-> emitted,
     result |-> result, passed |-> passed, log |-> log, prev |-> prev]

\* the invocations the threads run
ParSerCalls ==
    {SerCallOf("var", VecStub, Val("Vec", <<175>>), hr, FALSE) : hr \in BOOLEAN}
        \cup {SerCallOf("const", ConstFormStub(1), Val("Array", <<11>>), hr, FALSE) :
                hr \in BOOLEAN}
        \cup {SerCallOf("legacy", VecStub, Val("Vec", <<>>), TRUE, TRUE)}

ParDeCalls ==
    {DeCallOf("var", VecStub, TRUE, StrTok(<<"a", "F">>)),
     DeCallOf("var", VecStub, TRUE, StrTok(<<"g">>)),
     DeCallOf("var", VecStub, FALSE, ByteBufTok(<<255>>)),
     DeCallOf("legacy", ArrayStub(BufLen), TRUE, StrTok(<<"0", "0">>)),
     DeCallOf("const", KeyHexStub(1), TRUE, StrTok(<<"F", "F">>)),
     DeCallOf("const", KeyHexStub(1), FALSE, BytesTok(<<11>>)),
     DeCallOf("const", ConstFormStub(1), FALSE, BytesTok(<<0, 0>>)),
     DeCallOf("const", ConstFormStub(1), TRUE, FailTok)}

\* a thread starts a call when the other thread is in none, or is in the
\* second run of its invocation
MayStart == other.pc = "idle" \/ other.prev.op = "repeat"

ParSerCall ==
    /\ pc = "idle"
    /\ MayStart
    /\ \E c \in ParSerCalls : SerCall(c.adapter, c.stub, c.value, c.hr, c.sfails)

ParDeCall ==
    /\ pc = "idle"
    /\ MayStart
    /\ \E c \in ParDeCalls : DeCall(c.adapter, c.stub, c.hr, c.token)

\* the caller of an invocation that ran alone runs the same invocation again
Repeat ==
    /\ pc = "done"
    /\ prev.op = "none"
    /\ other.pc = "idle"
    /\ Begin(call,
             [op |-> "repeat", value |-> call.value, token |-> call.token,
              hr |-> call.hr, result |-> result, passed |-> passed,
              emitted |-> emitted],
             IF call.op = "ser" THEN "ser_start" ELSE "de_start")

\* the second run returns after the other thread's call has
ParReturn ==
    /\ prev.op = "repeat" => other.pc = "idle"
    /\ Return

\* the scheduler suspends the running thread and resumes the other one; a
\* first run is alone: it is not suspended
Switch ==
    /\ pc = "idle" \/ prev.op = "repeat" \/ other.prev.op = "repeat"
    /\ other' = Locals
    /\ pc' = other.pc
    /\ call' = other.call
    /\ buf' = other.buf
    /\ emitted' = other.emitted
    /\ result' = other.result
    /\ passed' = other.passed
    /\ log' = other.log
    /\ prev' = other.prev

NextPar ==
    \/ ParSerCall
    \/ SerCreateBytes
    \/ SerBranch
    \/ SerEmitStr
    \/ SerEmitBytes
    \/ ParDeCall
    \/ DeBranch
    \/ DeVisitStr
    \/ DeVisitBytes
    \/ DeFromBytes
    \/ DePropagate
    \/ ParReturn
    \/ Repeat
    \/ Switch

SpecPar == Init /\ [][NextPar]_vars

(***************************************************************************)
(* Vocabulary of the properties.                                           *)
(***************************************************************************)
\* bs is the byte sequence the hex string s spells
Spells(s, bs) == Len(s) = 2 * Len(bs) /\ HexEncode(bs) = LowerStr(s)

\* from_bytes(create_bytes(v)) succeeds and equals v
RoundTrips(stub, v) == FromBytes(stub, CreateBytes(stub, v)) = FromOk(v)

SerDone == pc = "done" /\ call.op = "ser"

DeDone == pc = "done" /\ call.op = "de"

IsBytesTok(tok) == tok.kind \in {"bytes", "byte_buf"}

(***************************************************************************)
(* C1: with a human-readable serializer, serialize of either adapter hands *)
(* serialize_str the lower-case hex encoding of create_bytes(v): only the  *)
(* characters 0-9 and a-f, 2 * len(create_bytes(v)) of them, spelling      *)
(* those bytes.                                                            *)
(***************************************************************************)
C1_HexForm ==
    (SerDone /\ call.hr) =>
        LET bs == CreateBytes(call.stub, call.value)
        IN  /\ emitted.kind = "str"
            /\ Len(emitted.str) = 2 * Len(bs)
            /\ \A i \in 1..Len(emitted.str) : emitted.str[i] \in LowerChars
            /\ HexDecode(emitted.str).ok
            /\ HexDecode(emitted.str).bytes = bs

C1_Witness ==
    /\ SerDone /\ call.hr
    /\ call.adapter = "const"
    /\ call.value.data = <<175, 11>>
    /\ emitted.str = <<"a", "f", "0", "b">>

(***************************************************************************)
(* C2: with a serializer that is not human-readable, serialize of either   *)
(* adapter hands serialize_bytes exactly create_bytes(v): the same length, *)
(* the same bytes, nothing added.                                          *)
(***************************************************************************)
C2_RawBytes ==
    (SerDone /\ ~call.hr) =>
        /\ emitted.kind = "bytes"
        /\ emitted.bytes = CreateBytes(call.stub, call.value)
        /\ emitted.str = <<>>

C2_Witness ==
    /\ SerDone /\ ~call.hr
    /\ call.adapter = "var"
    /\ call.stub.kind = "BufferHex"
    /\ emitted.bytes = <<0, 255>>

(***************************************************************************)
(* C3: human-readable round trip.  When from_bytes(create_bytes(v)) = v,   *)
(* the string serialize emitted for v under a human-readable serializer,   *)
(* given to deserialize under a human-readable deserializer, yields v; for *)
(* the variable-length and the constant-length adapter.                    *)
(***************************************************************************)
C3_RoundTripHuman ==
    (DeDone /\ prev.op = "ser" /\ prev.hr /\ call.hr
        /\ RoundTrips(call.stub, prev.value)) =>
            result = DeOk(prev.value)

C3_Witness ==
    /\ DeDone /\ prev.op = "ser" /\ prev.hr /\ call.hr
    /\ call.adapter = "const"
    /\ call.token = StrTok(<<"a", "f", "0", "0">>)
    /\ result = DeOk(Val("Array", <<175, 0>>))

(***************************************************************************)
(* C4: binary round trip.  When from_bytes(create_bytes(v)) = v, the bytes *)
(* serialize emitted for v under a serializer that is not human-readable,  *)
(* given to deserialize under a deserializer that is not human-readable,   *)
(* yield v; for the variable-length and the constant-length adapter.       *)
(***************************************************************************)
C4_RoundTripBinary ==
    (DeDone /\ prev.op = "ser" /\ ~prev.hr /\ ~call.hr
        /\ RoundTrips(call.stub, prev.value)) =>
            result = DeOk(prev.value)

C4_Witness ==
    /\ DeDone /\ prev.op = "ser" /\ ~prev.hr /\ ~call.hr
    /\ call.adapter = "const"
    /\ call.token = BytesTok(<<11, 255>>)
    /\ result = DeOk(Val("Array", <<11, 255>>))

(***************************************************************************)
(* C5: in the variable-length adapter, human-readable deserialization of a *)
(* string that is not well-formed hex (odd length, or a character that is  *)
(* no hex digit) fails with invalid_type, the string as the unexpected     *)
(* value and "hex-encoded byte array" as the expectation; never with a     *)
(* custom error, and from_bytes is not called.  Stated of every copy of    *)
(* Hex::deserialize in the repository.                                     *)
(***************************************************************************)
C5_BadHexIsInvalidType ==
    (DeDone /\ call.adapter \in {"var", "legacy"} /\ call.hr
        /\ call.token.kind = "str" /\ ~IsHexStr(call.token.str)) =>
            /\ result = DeErr(InvalidType(UnexpStr(call.token.str), ExpVarHex))
            /\ result.err.kind # "custom"
            /\ ~passed.called

\* C5, of var_len.rs alone, where it holds
C5_BadHexIsInvalidTypeVarLen ==
    (DeDone /\ call.adapter = "var" /\ call.hr
        /\ call.token.kind = "str" /\ ~IsHexStr(call.token.str)) =>
            /\ result = DeErr(InvalidType(UnexpStr(call.token.str), ExpVarHex))
            /\ ~passed.called

(***************************************************************************)
(* C6: in the constant-length adapter of length N, human-readable          *)
(* deserialization of a string whose length is not 2N or that holds a      *)
(* character that is no hex digit fails with invalid_type, the string as   *)
(* the unexpected value and "hex-encoded byte array of length N" as the    *)
(* expectation, and from_bytes is not called; a string of exactly 2N hex   *)
(* characters is decoded to the N bytes it spells.                         *)
(***************************************************************************)
C6_ConstStrLength ==
    (DeDone /\ call.adapter = "const" /\ call.hr /\ call.token.kind = "str") =>
        LET s == call.token.str
            n == call.stub.len
        IN  IF Len(s) # 2 * n \/ \E i \in 1..Len(s) : s[i] \notin HexChars
            THEN /\ result = DeErr(InvalidType(UnexpStr(s), ExpConstHex(n)))
                 /\ ~passed.called
            ELSE /\ buf.ok
                 /\ Len(buf.bytes) = n
                 /\ Spells(s, buf.bytes)
                 /\ passed = [called |-> TRUE, bytes |-> buf.bytes]

C6_Witness ==
    /\ DeDone /\ call.adapter = "const" /\ call.hr
    /\ call.stub.len = 2
    /\ call.token = StrTok(<<"a", "F">>)
    /\ result.err.kind = "invalid_type"
    /\ prev.op = "none"

(***************************************************************************)
(* C7: in the constant-length adapter of length N, binary deserialization  *)
(* of a byte sequence b with len(b) # N fails with invalid_length(len(b),  *)
(* "byte array of length N"), rendered "invalid length <len(b)>, expected  *)
(* byte array of length N", and from_bytes is not called; a byte sequence  *)
(* of exactly N bytes is passed to from_bytes unchanged.                   *)
(***************************************************************************)
C7_ConstBytesLength ==
    (DeDone /\ call.adapter = "const" /\ ~call.hr /\ IsBytesTok(call.token)) =>
        LET b == call.token.bytes
            n == call.stub.len
        IN  IF Len(b) # n
            THEN /\ result = DeErr(InvalidLength(Len(b), ExpConstBytes(n)))
                 /\ Render(result.err) =
                        <<"invalid length ", Len(b), ", expected ",
                          "byte array of length ", n>>
                 /\ ~passed.called
            ELSE passed = [called |-> TRUE, bytes |-> b]

C7_Witness ==
    /\ DeDone /\ call.adapter = "const" /\ ~call.hr
    /\ call.stub.len = 1
    /\ call.token = BytesTok(<<11, 11, 11>>)
    /\ result.err.kind = "invalid_length"
    /\ result.err.len = 3

(***************************************************************************)
(* C8: the variable-length adapter enforces no length.  Whatever bytes b   *)
(* (of any length, 0 included) a well-formed hex string spells or a bytes  *)
(* token holds, deserialize passes exactly b to from_bytes, succeeds if    *)
(* and only if from_bytes(b) does, and returns the value from_bytes made.  *)
(***************************************************************************)
C8_VarNoLength ==
    (DeDone /\ call.adapter \in {"var", "legacy"}
        /\ \/ call.hr /\ call.token.kind = "str" /\ IsHexStr(call.token.str)
           \/ IsBytesTok(call.token)) =>
        LET r == FromBytes(call.stub, passed.bytes)
        IN  /\ passed.called
            /\ call.token.kind = "str" => Spells(call.token.str, passed.bytes)
            /\ IsBytesTok(call.token) => passed.bytes = call.token.bytes
            /\ (result.tag = "ok") <=> r.ok
            /\ r.ok => result = DeOk(r.val)
            /\ ~r.ok => result = DeErr(Custom(r.msg))

C8_Witness ==
    /\ DeDone /\ call.adapter = "var" /\ call.hr
    /\ call.stub = BufferHexStub(BufLen)
    /\ call.token = StrTok(<<>>)
    /\ passed = [called |-> TRUE, bytes |-> <<>>]
    /\ result.tag = "err"

(***************************************************************************)
(* C9: in the variable-length adapter, when the deserializer reports       *)
(* human-readable but delivers a bytes token (a field of a flattened       *)
(* container), the string visitor accepts the token and returns its bytes  *)
(* unchanged, undecoded, so that a value serialized as raw bytes comes     *)
(* back equal.                                                             *)
(***************************************************************************)
C9_VarByteFallback ==
    (call.op = "de" /\ call.adapter \in {"var", "legacy"} /\ call.hr
        /\ IsBytesTok(call.token) /\ pc \in {"de_visited", "done"}) =>
            /\ buf = OkBytes(call.token.bytes)
            /\ (pc = "done" /\ prev.op = "ser" /\ ~prev.hr
                    /\ RoundTrips(call.stub, prev.value)) =>
                        result = DeOk(prev.value)

C9_Witness ==
    /\ DeDone /\ call.adapter = "var" /\ call.hr
    /\ prev.op = "ser" /\ ~prev.hr
    /\ call.token = BytesTok(<<175, 0, 11>>)
    /\ result = DeOk(Val("Vec", <<175, 0, 11>>))

(***************************************************************************)
(* C10 as stated: under a human-readable deserializer the string visitor   *)
(* of the constant-length adapter accepts no bytes token, of any length.   *)
(***************************************************************************)
C10_ConstNoByteFallback ==
    (call.op = "de" /\ call.adapter = "const" /\ call.hr
        /\ IsBytesTok(call.token) /\ pc \in {"de_visited", "done"}) =>
            /\ ~buf.ok
            /\ ~passed.called

(***************************************************************************)
(* C10 as amended: under a human-readable deserializer the string visitor  *)
(* of the constant-length adapter accepts a bytes token of exactly N bytes *)
(* and returns them unchanged to from_bytes; a bytes token of any other    *)
(* length is rejected with invalid_length(len, "hex-encoded byte array of  *)
(* length N") and from_bytes is not called.                                *)
(***************************************************************************)
C10_ConstExactByteFallback ==
    (DeDone /\ call.adapter = "const" /\ call.hr /\ IsBytesTok(call.token)) =>
        LET b == call.token.bytes
            n == call.stub.len
        IN  IF Len(b) = n
            THEN /\ buf = OkBytes(b)
                 /\ passed = [called |-> TRUE, bytes |-> b]
                 /\ result = MapFromBytes(FromBytes(call.stub, b))
            ELSE /\ result = DeErr(InvalidLength(Len(b), ExpConstHex(n)))
                 /\ ~passed.called

C10_Witness ==
    /\ DeDone /\ call.adapter = "const" /\ call.hr
    /\ call.stub = ConstFormStub(2)
    /\ call.token = BytesTok(<<0, 175>>)
    /\ result = DeOk(Val("Array", <<0, 175>>))

(***************************************************************************)
(* C11: domain-error passthrough.  In both adapters and both modes, when   *)
(* the visitor yields bytes and from_bytes fails with message M,           *)
(* deserialize fails with the custom error made of that error: its         *)
(* message is M, nothing put before it, nothing put in its place.          *)
(***************************************************************************)
C11_DomainErrorPassthrough ==
    (DeDone /\ buf.ok /\ ~FromBytes(call.stub, buf.bytes).ok) =>
        LET m == FromBytes(call.stub, buf.bytes).msg
        IN  /\ result.tag = "err"
            /\ result.err.kind = "custom"
            /\ result.err.msg = m
            /\ Render(result.err) = <<m>>

C11_Witness ==
    /\ DeDone /\ call.adapter = "const" /\ call.hr
    /\ call.stub = KeyHexStub(1)
    /\ call.token = StrTok(<<"F", "F">>)
    /\ result = DeErr(Custom("invalid public key"))

(***************************************************************************)
(* C12: case insensitivity.  In human-readable deserialization, an         *)
(* uppercase or mixed-case spelling of a lowercase hex string whose bytes  *)
(* reach from_bytes passes the same bytes to from_bytes and yields the     *)
(* same result as the lowercase string did.                                *)
(***************************************************************************)
C12_CaseInsensitive ==
    (DeDone /\ prev.op = "recase" /\ prev.passed.called) =>
        /\ LowerStr(call.token.str) = prev.token.str
        /\ passed = prev.passed
        /\ result = prev.result

C12_Witness ==
    /\ DeDone /\ prev.op = "recase"
    /\ call.adapter = "const"
    /\ prev.token = StrTok(<<"a", "0">>)
    /\ call.token = StrTok(<<"A", "0">>)
    /\ prev.passed = [called |-> TRUE, bytes |-> <<160>>]
    /\ passed = prev.passed
    /\ result.tag = "ok"

\* serialize holds the bytes create_bytes returned
SerCreated == call.op = "ser" /\ pc \in {"ser_created", "ser_hex", "ser_raw", "done"}

(***************************************************************************)
(* C13: for ConstHexForm over [u8; N], create_bytes(a) returns an array    *)
(* equal to a and leaves a as it was, from_bytes of an array succeeds and  *)
(* returns that array, and so from_bytes(create_bytes(a)) = a always.      *)
(***************************************************************************)
C13_ConstFormIdentity ==
    call.stub.kind = "ConstHexForm" =>
        /\ SerCreated =>
              /\ buf = OkBytes(call.value.data)
              /\ Len(buf.bytes) = call.stub.len
              /\ FromBytes(call.stub, buf.bytes) = FromOk(call.value)
        /\ (call.op = "de" /\ passed.called) =>
              /\ Len(passed.bytes) = call.stub.len
              /\ result = DeOk(Val("Array", passed.bytes))

C13_Witness ==
    /\ DeDone /\ ~call.hr
    /\ call.stub = ConstFormStub(2)
    /\ passed = [called |-> TRUE, bytes |-> <<0, 255>>]
    /\ result = DeOk(Val("Array", <<0, 255>>))

(***************************************************************************)
(* C14: for HexForm<T>, create_bytes(v) is v.as_ref(), v left as it was,   *)
(* and from_bytes(b) is the result of T::try_from(b): the same value when  *)
(* it succeeds, the constructor's own error when it fails.                 *)
(***************************************************************************)
C14_HexFormDelegates ==
    call.stub.kind \in {"HexFormVec", "HexFormArray"} =>
        /\ SerCreated =>
              /\ buf = OkBytes(AsRef(call.value))
              /\ FromBytes(call.stub, buf.bytes) = TryFromSlice(call.stub, AsRef(call.value))
        /\ (call.op = "de" /\ passed.called) =>
              LET r == TryFromSlice(call.stub, passed.bytes)
              IN  IF r.ok THEN result = DeOk(r.val)
                  ELSE result = DeErr(Custom(r.msg))

C14_Witness ==
    /\ DeDone /\ call.adapter = "legacy"
    /\ call.stub = ArrayStub(BufLen)
    /\ passed = [called |-> TRUE, bytes |-> <<175>>]
    /\ result = DeErr(Custom("could not convert slice to array"))

(***************************************************************************)
(* C15: empty sequences are legal on every path.  The variable-length      *)
(* adapter decodes the empty hex string to zero bytes and passes them to   *)
(* from_bytes, and serializes a value of zero bytes as the empty string    *)
(* or as empty bytes.  The constant-length adapter with N = 0 serializes   *)
(* to the empty string or to empty bytes without failing or panicking,     *)
(* and its deserialize accepts the empty string and the empty bytes.       *)
(***************************************************************************)
C15_EmptyIsLegal ==
    /\ (DeDone /\ call.adapter \in {"var", "legacy"} /\ call.hr
            /\ call.token = StrTok(<<>>)) =>
          /\ passed = [called |-> TRUE, bytes |-> <<>>]
          /\ result = MapFromBytes(FromBytes(call.stub, <<>>))
    /\ (SerDone /\ Len(call.value.data) = 0) =>
          /\ emitted = IF call.hr THEN StrTok(<<>>) ELSE BytesTok(<<>>)
          /\ result = IF call.sfails THEN SerErr ELSE SerOk
    /\ (DeDone /\ call.adapter = "const" /\ call.stub.len = 0
            /\ \/ call.hr /\ call.token = StrTok(<<>>)
               \/ ~call.hr /\ IsBytesTok(call.token) /\ call.token.bytes = <<>>) =>
          /\ passed = [called |-> TRUE, bytes |-> <<>>]
          /\ result.tag = "ok"
          /\ result.val.data = <<>>

C15_Witness ==
    /\ DeDone /\ call.adapter = "const" /\ call.stub = KeyHexStub(0)
    /\ prev.op = "ser" /\ prev.hr /\ prev.value = Val("Key", <<>>)
    /\ prev.emitted = StrTok(<<>>) /\ prev.result = SerOk
    /\ call.hr /\ call.token = StrTok(<<>>)
    /\ result = DeOk(Val("Key", <<>>))

(***************************************************************************)
(* C16: reverse round trip through the human-readable form.  When a        *)
(* well-formed hex string s is deserialized, its bytes b are accepted by   *)
(* from_bytes and create_bytes of the value gives b back, serializing the  *)
(* value emits s in lower case: s itself when s is lowercase, the          *)
(* lowercase form of s when s has uppercase letters.                       *)
(***************************************************************************)
C16_ReverseRoundTrip ==
    (SerDone /\ call.hr /\ prev.op = "de" /\ prev.hr /\ prev.token.kind = "str"
        /\ IsHexStr(prev.token.str)
        /\ prev.passed.called
        /\ CreateBytes(call.stub, prev.result.val) = prev.passed.bytes) =>
        /\ call.value = prev.result.val
        /\ result.tag # "panic"
        /\ emitted = StrTok(LowerStr(prev.token.str))
        /\ prev.token.str = LowerStr(prev.token.str) => emitted = prev.token

C16_Witness ==
    /\ SerDone /\ call.hr /\ call.adapter = "var" /\ call.stub = VecStub
    /\ prev.op = "de" /\ prev.hr
    /\ prev.token = StrTok(<<"a", "F">>)
    /\ prev.passed = [called |-> TRUE, bytes |-> <<175>>]
    /\ emitted = StrTok(<<"a", "f">>)
    /\ result = SerOk

\* the second run of an invocation ended as its run alone did
SameAsAlone(l) ==
    (l.pc = "done" /\ l.prev.op = "repeat") =>
        /\ l.result = l.prev.result
        /\ l.emitted = l.prev.emitted
        /\ l.passed = l.prev.passed

(***************************************************************************)
(* C17: every serialize and deserialize is a function of its inputs and    *)
(* shares no state with other calls.  An invocation run twice returns the  *)
(* same result, and an invocation interleaved in any way with the          *)
(* invocations of another thread returns what it returned when it ran      *)
(* alone.                                                                  *)
(***************************************************************************)
C17_Independent == SameAsAlone(Locals) /\ SameAsAlone(other)

C17_Witness ==
    /\ pc = "done" /\ prev.op = "repeat"
    /\ call = DeCallOf("const", KeyHexStub(1), TRUE, StrTok(<<"F", "F">>))
    /\ result = DeErr(Custom("invalid public key"))
    /\ result = prev.result
    /\ other.pc = "ser_hex"
    /\ other.call.op = "ser" /\ other.call.adapter = "var"

\* how many times the collaborator call x was made
Count(x, l) == Cardinality({i \in DOMAIN l : l[i] = x})

Requests == {"deserialize_str", "deserialize_bytes", "deserialize_byte_buf"}

Visits == {"visit_str", "visit_bytes", "visit_byte_buf", "visit_u64"}

(***************************************************************************)
(* C18: error propagation without partial success.  In deserialize, an     *)
(* error of the deserializer or of the visitor is returned as it is and    *)
(* from_bytes is not called; from_bytes is called at most once, and only   *)
(* with the bytes the visitor produced; the deserializer is asked once;    *)
(* the call ends with a value or with an error, never both.                *)
(***************************************************************************)
C18_NoPartialSuccess ==
    call.op = "de" =>
        /\ (pc \in {"de_visited", "done"} /\ ~buf.ok) =>
              /\ ~passed.called
              /\ Count("from_bytes", log) = 0
              /\ pc = "done" => result = DeErr(buf.err)
        /\ (pc = "done" /\ call.token.kind = "fail") => result = DeErr(TransportError)
        /\ Count("from_bytes", log) = IF passed.called THEN 1 ELSE 0
        /\ passed.called =>
              /\ buf = OkBytes(passed.bytes)
              /\ Len(log) >= 2
              /\ log[Len(log)] = "from_bytes"
              /\ log[Len(log) - 1] \in Visits
        /\ Cardinality({i \in DOMAIN log : log[i] \in Requests}) <= 1
        /\ pc = "done" =>
              \/ result.tag = "ok" /\ result.val # NoVal /\ result.err = NoErr
                    /\ passed.called
              \/ result.tag = "err" /\ result.val = NoVal /\ result.err # NoErr

C18_Witness ==
    /\ DeDone /\ call.adapter = "var" /\ ~call.hr
    /\ call.token = U64Tok
    /\ buf = ErrBytes(InvalidType(UnexpUnsigned, ExpVarBytes))
    /\ result = DeErr(buf.err)
    /\ ~passed.called
    /\ log = <<"is_human_readable", "deserialize_byte_buf", "visit_u64">>

(***************************************************************************)
(* C19: in the human-readable branch of ConstHex::serialize, for every N   *)
(* the [u16; N] buffer seen as bytes is exactly 2N bytes long, so          *)
(* encode_to_slice does not fail and unwrap does not panic, every byte of  *)
(* the buffer is overwritten with an ASCII hex character, and the emitted  *)
(* string has exactly 2N characters.                                       *)
(***************************************************************************)
C19_ConstBufferFits ==
    (SerDone /\ call.adapter = "const" /\ call.hr) =>
        LET n == call.stub.len
        IN  /\ AsU8SliceLen(n) = 2 * n
            /\ Len(buf.bytes) = n
            /\ HexEncodeToSlice(buf.bytes, AsU8SliceLen(n)).ok
            /\ result.tag # "panic"
            /\ emitted.kind = "str"
            /\ Len(emitted.str) = 2 * n
            /\ \A i \in 1..(2 * n) : emitted.str[i] \in LowerChars

C19_Witness ==
    /\ SerDone /\ call.adapter = "const" /\ call.hr
    /\ call.stub = ConstFormStub(2)
    /\ call.value = Val("Array", <<0, 255>>)
    /\ emitted = StrTok(<<"0", "0", "f", "f">>)
    /\ result = SerOk

(***************************************************************************)
(* C20: whenever the string visitor of the constant-length adapter is      *)
(* handed bytes, the exact-length rule stands: a slice whose length is not *)
(* N is rejected with invalid_length carrying that length and from_bytes   *)
(* is not called; a slice of exactly N bytes reaches from_bytes as it is,  *)
(* neither padded nor truncated.                                           *)
(***************************************************************************)
C20_ExactLengthKept ==
    (call.op = "de" /\ call.adapter = "const" /\ call.hr
        /\ IsBytesTok(call.token) /\ pc \in {"de_visited", "done"}) =>
        LET b == call.token.bytes
            n == call.stub.len
        IN  /\ buf.ok <=> Len(b) = n
            /\ buf.ok => buf.bytes = b
            /\ ~buf.ok =>
                  /\ buf.err.kind = "invalid_length"
                  /\ buf.err.len = Len(b)
                  /\ ~passed.called
                  /\ Count("from_bytes", log) = 0
                  /\ pc = "done" => (result.tag = "err" /\ result.err = buf.err)
            /\ passed.called => (passed.bytes = b /\ Len(passed.bytes) = n)
            /\ (pc = "done" /\ buf.ok) => passed.called

C20_Witness ==
    /\ DeDone /\ call.adapter = "const" /\ call.hr
    /\ call.stub = KeyHexStub(2)
    /\ call.token = ByteBufTok(<<11, 175, 0>>)
    /\ result.tag = "err"
    /\ result.err.kind = "invalid_length"
    /\ result.err.len = 3
    /\ ~passed.called

Emits == {"serialize_str", "serialize_bytes"}

(***************************************************************************)
(* C21: in every serialize call of both adapters create_bytes is called    *)
(* exactly once, is_human_readable is consulted once, and exactly one emit *)
(* is made, once: serialize_str when the flag is true, serialize_bytes     *)
(* when it is false; from_bytes is never called, and the serializer's      *)
(* result, Ok or error, is what serialize returns.                         *)
(***************************************************************************)
C21_SerializeCallCounts ==
    call.op = "ser" =>
        /\ Count("create_bytes", log) <= 1
        /\ Count("is_human_readable", log) <= 1
        /\ Cardinality({i \in DOMAIN log : log[i] \in Emits}) <= 1
        /\ Count("from_bytes", log) = 0
        /\ ~passed.called
        /\ pc = "done" =>
              /\ log = <<"create_bytes", "is_human_readable",
                         IF call.hr THEN "serialize_str" ELSE "serialize_bytes">>
              /\ emitted.kind = IF call.hr THEN "str" ELSE "bytes"
              /\ result = IF call.sfails THEN SerErr ELSE SerOk

C21_Witness ==
    /\ SerDone /\ call.adapter = "const" /\ ~call.hr /\ call.sfails
    /\ call.stub = KeyHexStub(1)
    /\ emitted = BytesTok(<<11>>)
    /\ result = SerErr
    /\ log = <<"create_bytes", "is_human_readable", "serialize_bytes">>

====
